---- MODULE Spec2Model ----
(***************************************************************************)
(* FraudGuard AI (src/app.py): the Streamlit script that loads a reference *)
(* dataset and a pickled classifier, label-encodes the categorical form    *)
(* fields, assembles the 18-entry feature row, calls predict_proba and     *)
(* thresholds the probability into a risk tier.                            *)
(*                                                                         *)
(* One action is one run of the script (Streamlit re-executes app.py from  *)
(* top to bottom on every interaction); load_data and load_model are       *)
(* cached, so their bodies execute in the first run only.                  *)
(***************************************************************************)
EXTENDS Integers, Sequences, FiniteSets, TLC

VARIABLES
    csv,        \* the file at DATA_PATH
    pkl,        \* the file at MODEL_PATH (the persisted artifact)
    started,    \* TRUE once the caches of load_data / load_model are filled
    df,         \* cached result of load_data()
    model,      \* cached result of load_model(): None or an object graph
    selected,   \* option_menu selection of the current run
    form,       \* widget values of the current run (None off the form page)
    predict_btn, \* what st.button returned in the current run
    analysis,   \* what the `if predict_btn and model:` block left, or None
    notices     \* st.error / st.warning messages emitted by the current run

vars == <<csv, pkl, started, df, model, selected, form, predict_btn, analysis,
          notices>>

-----------------------------------------------------------------------------
(* Bounds of the model.                                                    *)

\* Longest reference dataset (number of rows of the csv).
MaxRows == 3
\* Largest object graph of a pickled model (number of estimator objects).
MaxNodes == 3
\* Probabilities are the rationals n / ProbScale, n \in 0..ProbScale.
ProbScale == 20

-----------------------------------------------------------------------------
(* Python values.  A str is the sequence of its code points, so that the   *)
(* order `sorted` uses on labels is the one Python uses.                   *)

None == [none |-> TRUE]
Str(codepoints) == [str |-> codepoints]

\* str.__lt__: lexicographic on code points, a proper prefix is smaller.
RECURSIVE SeqLess(_, _)
SeqLess(s, t) ==
    IF s = <<>> THEN t # <<>>
    ELSE IF t = <<>> THEN FALSE
    ELSE IF Head(s) # Head(t) THEN Head(s) < Head(t)
    ELSE SeqLess(Tail(s), Tail(t))

StrLess(a, b) == SeqLess(a.str, b.str)

\* The labels the source names (fallback option lists, app.py 191-215).
POS        == Str(<<80, 79, 83>>)
Online     == Str(<<79, 110, 108, 105, 110, 101>>)
Mobile     == Str(<<77, 111, 98, 105, 108, 101>>)
Desktop    == Str(<<68, 101, 115, 107, 116, 111, 112>>)
CityA      == Str(<<67, 105, 116, 121, 32, 65>>)
CityB      == Str(<<67, 105, 116, 121, 32, 66>>)
Retail     == Str(<<82, 101, 116, 97, 105, 108>>)
Travel     == Str(<<84, 114, 97, 118, 101, 108>>)
Visa       == Str(<<86, 105, 115, 97>>)
MasterCard == Str(<<77, 97, 115, 116, 101, 114, 67, 97, 114, 100>>)
PIN        == Str(<<80, 73, 78>>)
Biometric  == Str(<<66, 105, 111, 109, 101, 116, 114, 105, 99>>)
\* Further labels a reference dataset may hold.
ATM         == Str(<<65, 84, 77>>)
City        == Str(<<67, 105, 116, 121>>)
retailLower == Str(<<114, 101, 116, 97, 105, 108>>)
Amex        == Str(<<65, 109, 101, 120>>)
OTP         == Str(<<79, 84, 80>>)

\* The six categorical columns, in the order the script encodes them.
CatCols == <<"transaction_type", "device_type", "location",
             "merchant_category", "card_type", "authentication_method">>
CatColSet == {CatCols[i] : i \in 1..Len(CatCols)}

-----------------------------------------------------------------------------
(* The files the script reads.                                             *)

Missing == [exists |-> FALSE]

\* Rows a reference dataset is made of.  Only the categorical columns are
\* kept (the prediction page reads no other column) and their values are
\* str labels.
RowPool == {
    [transaction_type |-> POS, device_type |-> Mobile, location |-> CityA,
     merchant_category |-> Travel, card_type |-> Visa,
     authentication_method |-> PIN],
    [transaction_type |-> Online, device_type |-> Desktop, location |-> CityB,
     merchant_category |-> Retail, card_type |-> MasterCard,
     authentication_method |-> Biometric],
    [transaction_type |-> ATM, device_type |-> Mobile, location |-> City,
     merchant_category |-> retailLower, card_type |-> Amex,
     authentication_method |-> OTP] }

\* Column sets a dataset file may lack.
DroppedColumns == { {}, {"location", "card_type"} }

Restrict(row, columns) == [c \in columns |-> row[c]]

BoundedSeq(S, n) == UNION {[1..k -> S] : k \in 0..n}

\* The dataset files: missing, or a header with 0..MaxRows rows.
DatasetFiles ==
    {Missing} \cup
    { [exists |-> TRUE, columns |-> CatColSet \ d,
       rows |-> [i \in 1..Len(rs) |-> Restrict(rs[i], CatColSet \ d)]] :
         d \in DroppedColumns, rs \in BoundedSeq(RowPool, MaxRows) }

-----------------------------------------------------------------------------
(* load_data                                                               *)

\* pd.DataFrame(): no columns, no rows.
EmptyDataFrame == [columns |-> {}, rows |-> <<>>]

\* The column names of the model are already in the cleaned form line 53
\* produces; a missing file yields the empty frame (lines 64-66).
load_data(file) ==
    IF file.exists THEN [columns |-> file.columns, rows |-> file.rows]
    ELSE EmptyDataFrame

\* df[column_name] as a list of values.
Column(frame, c) == [i \in 1..Len(frame.rows) |-> frame.rows[i][c]]

Contains(seq, v) == \E i \in 1..Len(seq) : seq[i] = v

\* Series.unique(): the distinct values in order of first appearance.
RECURSIVE Unique(_)
Unique(seq) ==
    IF seq = <<>> THEN <<>>
    ELSE LET init == Unique(SubSeq(seq, 1, Len(seq) - 1))
             last == seq[Len(seq)]
         IN IF Contains(init, last) THEN init ELSE Append(init, last)

\* Insert v before the first element it is smaller than.
RECURSIVE Insert(_, _)
Insert(sortedSeq, v) ==
    IF sortedSeq = <<>> THEN <<v>>
    ELSE IF StrLess(v, Head(sortedSeq)) THEN <<v>> \o sortedSeq
    ELSE <<Head(sortedSeq)>> \o Insert(Tail(sortedSeq), v)

\* Faulty variant of `sorted`: the list is left in its given order.
Unsorted(seq) == seq

\* sorted(list): ascending by str comparison (stable insertion).
RECURSIVE sorted(_)
sorted(seq) ==
    IF seq = <<>> THEN <<>>
    ELSE Insert(sorted(SubSeq(seq, 1, Len(seq) - 1)), seq[Len(seq)])

\* list.index(v): 0-based position of the first element equal to v
\* (callers check Contains first: index raises ValueError otherwise).
ListIndex(seq, v) ==
    (CHOOSE i \in 1..Len(seq) :
        seq[i] = v /\ \A j \in 1..(i - 1) : seq[j] # v) - 1

-----------------------------------------------------------------------------
(* encode_input (app.py 166-175)                                           *)

\* Which return statement encode_input leaves through.
encode_return(frame, column_name, user_selection) ==
    IF column_name \in frame.columns
    THEN IF Contains(sorted(Unique(Column(frame, column_name))), user_selection)
         THEN "index"           \* line 172
         ELSE "ValueError"      \* line 174
    ELSE "absent"               \* line 175

\* Faulty variant: the position in the unsorted distinct values.
encode_input_unsorted(frame, column_name, user_selection) ==
    IF column_name \in frame.columns
    THEN LET unique_values == Unique(Column(frame, column_name))
         IN IF Contains(unique_values, user_selection)
            THEN ListIndex(unique_values, user_selection)
            ELSE 0
    ELSE 0

encode_input(frame, column_name, user_selection) ==
    IF column_name \in frame.columns
    THEN LET unique_values == sorted(Unique(Column(frame, column_name)))
         IN IF Contains(unique_values, user_selection)
            THEN ListIndex(unique_values, user_selection)
            ELSE 0
    ELSE 0

-----------------------------------------------------------------------------
(* The input form (app.py 178-229)                                         *)

\* The option list of a categorical selectbox when its column is absent.
FallbackOptions ==
    [transaction_type      |-> <<POS, Online>>,
     device_type           |-> <<Mobile, Desktop>>,
     location              |-> <<CityA, CityB>>,
     merchant_category     |-> <<Retail, Travel>>,
     card_type             |-> <<Visa, MasterCard>>,
     authentication_method |-> <<PIN, Biometric>>]

\* sorted(df[c].unique()) if c in df.columns else the fallback list.
Options(frame, c) ==
    IF c \in frame.columns THEN sorted(Unique(Column(frame, c)))
    ELSE FallbackOptions[c]

\* st.selectbox: the option at the chosen position, None for no options.
selectbox(options, choice) ==
    IF options = <<>> THEN None ELSE options[choice + 1]

\* The form field holding the selection for a categorical column.
StrField ==
    [transaction_type      |-> "transaction_type_str",
     device_type           |-> "device_type_str",
     location              |-> "location_str",
     merchant_category     |-> "merchant_category_str",
     card_type             |-> "card_type_str",
     authentication_method |-> "authentication_method_str"]

\* days_map (line 226): position i holds the name of day i - 1.
days_map == <<"Monday", "Tuesday", "Wednesday", "Thursday", "Friday",
              "Saturday", "Sunday">>

\* The widgets' default values.
FormDefault(frame) ==
    [transaction_amount          |-> 100,
     account_balance             |-> 5000,
     transaction_type_str        |-> selectbox(Options(frame, "transaction_type"), 0),
     device_type_str             |-> selectbox(Options(frame, "device_type"), 0),
     location_str                |-> selectbox(Options(frame, "location"), 0),
     merchant_category_str       |-> selectbox(Options(frame, "merchant_category"), 0),
     daily_transaction_count     |-> 1,
     avg_transaction_amount_7d   |-> 50,
     failed_transaction_count_7d |-> 0,
     card_type_str               |-> selectbox(Options(frame, "card_type"), 0),
     card_age                    |-> 365,
     transaction_distance        |-> 10,
     authentication_method_str   |-> selectbox(Options(frame, "authentication_method"), 0),
     is_weekend_val              |-> "No",
     hour                        |-> 12,
     day                         |-> 15,
     month                       |-> 6,
     day_of_week_str             |-> "Monday"]

LastOption(options) == selectbox(options, IF options = <<>> THEN 0 ELSE Len(options) - 1)

\* Every widget moved away from its default (to its last option).
FormLast(frame) ==
    [transaction_amount          |-> 250,
     account_balance             |-> 4000,
     transaction_type_str        |-> LastOption(Options(frame, "transaction_type")),
     device_type_str             |-> LastOption(Options(frame, "device_type")),
     location_str                |-> LastOption(Options(frame, "location")),
     merchant_category_str       |-> LastOption(Options(frame, "merchant_category")),
     daily_transaction_count     |-> 7,
     avg_transaction_amount_7d   |-> 80,
     failed_transaction_count_7d |-> 3,
     card_type_str               |-> LastOption(Options(frame, "card_type")),
     card_age                    |-> 30,
     transaction_distance        |-> 900,
     authentication_method_str   |-> LastOption(Options(frame, "authentication_method")),
     is_weekend_val              |-> "Yes",
     hour                        |-> 23,
     day                         |-> 31,
     month                       |-> 11,
     day_of_week_str             |-> "Sunday"]

NumericFields ==
    {"transaction_amount", "account_balance", "daily_transaction_count",
     "avg_transaction_amount_7d", "failed_transaction_count_7d", "card_age",
     "transaction_distance", "is_weekend_val", "hour", "day", "month"}

\* One widget moved: <<field, value>>.
WidgetMoves(frame) ==
    {<<f, FormLast(frame)[f]>> : f \in NumericFields} \cup
    {<<"day_of_week_str", "Wednesday">>} \cup
    UNION { {<<StrField[c], Options(frame, c)[i]>> :
                i \in 2..Len(Options(frame, c))} : c \in CatColSet }

\* The submissions explored: the defaults, the defaults with one widget
\* moved, and every widget moved.
Forms(frame) ==
    {FormDefault(frame), FormLast(frame)} \cup
    {[FormDefault(frame) EXCEPT ![w[1]] = w[2]] : w \in WidgetMoves(frame)}

-----------------------------------------------------------------------------
(* The feature row (app.py 238-279)                                        *)

\* Faulty variant: the guard without the model test.
ButtonOnly(pressed, mdl) == pressed

\* `if predict_btn and model:` (line 238); None is falsy, a loaded
\* fitted estimator is truthy.
ShouldPredict(pressed, mdl) == pressed /\ mdl # None

\* Position of a value in a list of distinct values (list.index).
DayIndex(name) == (CHOOSE i \in 1..Len(days_map) : days_map[i] = name) - 1

\* Faulty variant: account_balance and transaction_type_enc change places.
input_features_swapped(frame, f) ==
    <<f.transaction_amount,
      f.account_balance,
      encode_input(frame, "transaction_type", f.transaction_type_str),
      encode_input(frame, "device_type", f.device_type_str),
      encode_input(frame, "location", f.location_str),
      encode_input(frame, "merchant_category", f.merchant_category_str),
      f.daily_transaction_count,
      f.avg_transaction_amount_7d,
      f.failed_transaction_count_7d,
      encode_input(frame, "card_type", f.card_type_str),
      f.card_age,
      f.transaction_distance,
      encode_input(frame, "authentication_method", f.authentication_method_str),
      IF f.is_weekend_val = "Yes" THEN 1 ELSE 0,
      f.hour,
      f.day,
      f.month,
      DayIndex(f.day_of_week_str)>>

\* input_features (lines 240-268), with is_weekend (219) and day_of_week
\* (229) computed from their widgets.
input_features(frame, f) ==
    <<f.transaction_amount,
      encode_input(frame, "transaction_type", f.transaction_type_str),
      f.account_balance,
      encode_input(frame, "device_type", f.device_type_str),
      encode_input(frame, "location", f.location_str),
      encode_input(frame, "merchant_category", f.merchant_category_str),
      f.daily_transaction_count,
      f.avg_transaction_amount_7d,
      f.failed_transaction_count_7d,
      encode_input(frame, "card_type", f.card_type_str),
      f.card_age,
      f.transaction_distance,
      encode_input(frame, "authentication_method", f.authentication_method_str),
      IF f.is_weekend_val = "Yes" THEN 1 ELSE 0,
      f.hour,
      f.day,
      f.month,
      DayIndex(f.day_of_week_str)>>

\* cols (lines 271-277).
cols ==
    <<"transaction_amount", "transaction_type", "account_balance",
      "device_type", "location", "merchant_category",
      "daily_transaction_count", "avg_transaction_amount_7d",
      "failed_transaction_count_7d", "card_type", "card_age",
      "transaction_distance", "authentication_method", "is_weekend",
      "hour", "day", "month", "day_of_week">>

\* pd.DataFrame([input_features], columns=cols): one row, the i-th value
\* under the i-th column name.
input_df(features) ==
    [i \in 1..Len(cols) |-> [column |-> cols[i], value |-> features[i]]]

-----------------------------------------------------------------------------
(* Risk tier (app.py 291-308).  probability is n / ProbScale, so           *)
(* `probability > 0.5` is 2n > ProbScale and `probability > 0.3` is        *)
(* 10n > 3 ProbScale.                                                      *)

Probabilities == 0..ProbScale

\* Faulty variant: the cuts belong to the higher tier.
classify_inclusive(n) ==
    IF 2 * n >= ProbScale THEN
        [risk_level |-> "CRITICAL RISK", risk_color |-> "#FF4B4B",
         risk_message |-> "Transaction Blocked - High Fraud Probability",
         bar_width |-> "100%"]
    ELSE IF 10 * n >= 3 * ProbScale THEN
        [risk_level |-> "WARNING", risk_color |-> "#FFA500",
         risk_message |-> "Manual Review Required", bar_width |-> "60%"]
    ELSE
        [risk_level |-> "SAFE", risk_color |-> "#00CC96",
         risk_message |-> "Transaction Verified Successfully",
         bar_width |-> "5%"]

classify(n) ==
    IF 2 * n > ProbScale THEN
        [risk_level |-> "CRITICAL RISK", risk_color |-> "#FF4B4B",
         risk_message |-> "Transaction Blocked - High Fraud Probability",
         bar_width |-> "100%"]
    ELSE IF 10 * n > 3 * ProbScale THEN
        [risk_level |-> "WARNING", risk_color |-> "#FFA500",
         risk_message |-> "Manual Review Required", bar_width |-> "60%"]
    ELSE
        [risk_level |-> "SAFE", risk_color |-> "#00CC96",
         risk_message |-> "Transaction Verified Successfully",
         bar_width |-> "5%"]

\* What model.predict_proba(input_df)[0][1] can do: return a probability
\* or raise.  The classifier is opaque, so every outcome is possible.
PredictOutcomes ==
    {[raises |-> TRUE]} \cup {[raises |-> FALSE, p |-> n] : n \in Probabilities}

\* Lines 239-308: build the row, call the model, threshold.  An exception
\* of the call is reported with st.error and probability is set to 0.0.
Analyze(frame, f, outcome) ==
    LET features == input_features(frame, f)
        probability == IF outcome.raises THEN 0 ELSE outcome.p
    IN  [input_features |-> features,
         input_df       |-> input_df(features),
         raised         |-> outcome.raises,
         probability    |-> probability,
         tier           |-> classify(probability)]

-----------------------------------------------------------------------------
(* The pickled model: a graph of Python objects.  heap[i] is object i,     *)
(* object 1 is the one joblib.load returns.  An object's attrs maps the    *)
(* names of its attributes to their values: estimators_ a list of objects, *)
(* steps a list of (name, object) pairs.  settable is FALSE for an object  *)
(* that rejects new attributes (setattr raises), as the rows of a          *)
(* gradient-boosting estimators_ array do.                                 *)

hasattr(obj, name) == name \in DOMAIN obj.attrs

\* A monotonic_cst a fitted estimator may already carry.
Cst == [array |-> <<1, 0, -1>>]

\* A finite set of object ids as an ascending list.
Ascending(S) ==
    CHOOSE s \in [1..Cardinality(S) -> S] :
        \A i, j \in 1..Cardinality(S) : i < j => s[i] < s[j]

\* The object graph with n objects in which object i > 1 is listed in
\* attribute link[i] of object parent[i], and mono says what each object
\* has for monotonic_cst.
Graph(n, parent, link, mono, canSet) ==
    [i \in 1..n |->
        LET kids(kind) == Ascending({j \in 2..n : parent[j] = i /\ link[j] = kind})
            names == {"n_features_in_"}
                     \cup (IF kids("estimators_") # <<>> THEN {"estimators_"} ELSE {})
                     \cup (IF kids("steps") # <<>> THEN {"steps"} ELSE {})
                     \cup (IF mono[i] # "absent" THEN {"monotonic_cst"} ELSE {})
        IN  [settable |-> canSet[i],
             attrs |-> [a \in names |->
                 CASE a = "n_features_in_" -> Len(cols)
                   [] a = "estimators_"    -> kids("estimators_")
                   [] a = "steps"          ->
                        [k \in 1..Len(kids("steps")) |-> <<"step", kids("steps")[k]>>]
                   [] a = "monotonic_cst"  ->
                        IF mono[i] = "None" THEN None ELSE Cst]]]

GraphsOfSize(n) ==
    { Graph(n, parent, link, mono, canSet) :
        parent \in {q \in [2..n -> 1..n] : \A i \in 2..n : q[i] < i},
        link \in [2..n -> {"estimators_", "steps"}],
        mono \in [1..n -> {"absent", "None", "Cst"}],
        canSet \in [1..n -> BOOLEAN] }

\* The model files holding a graph of n objects.
ModelFilesOfSize(n) == { [exists |-> TRUE, heap |-> g] : g \in GraphsOfSize(n) }

\* A single fitted classifier saved by an older library version.
PlainClassifier ==
    [exists |-> TRUE,
     heap |-> Graph(1, <<>>, <<>>, <<"absent">>, <<TRUE>>)]

-----------------------------------------------------------------------------
(* patch_model_recursive and load_model (app.py 69-91)                     *)

\* setattr(obj, name, value), for an object that accepts it.
setattr(obj, name, value) ==
    [obj EXCEPT !.attrs =
        [a \in DOMAIN obj.attrs \cup {name} |->
            IF a = name THEN value ELSE obj.attrs[a]]]

\* Faulty variant: the attribute is set without the hasattr test.
PatchLeafAlways(obj) ==
    IF obj.settable THEN setattr(obj, "monotonic_cst", None) ELSE obj

\* Lines 78-79 under the try of line 70: a setattr that raises leaves the
\* object as it was (`except Exception: pass`).
PatchLeaf(obj) ==
    IF ~hasattr(obj, "monotonic_cst")
    THEN IF obj.settable THEN setattr(obj, "monotonic_cst", None) ELSE obj
    ELSE obj

\* The objects of a steps list.
StepObjects(steps) == [k \in 1..Len(steps) |-> steps[k][2]]

RECURSIVE patch_model_recursive(_, _), PatchEach(_, _)

\* The for loops of lines 72-73 and 75-76: the objects in list order.
PatchEach(heap, ids) ==
    IF ids = <<>> THEN heap
    ELSE PatchEach(patch_model_recursive(heap, Head(ids)), Tail(ids))

\* The objects are patched in place: the result is the heap afterwards.
patch_model_recursive(heap, m) ==
    IF hasattr(heap[m], "estimators_")
    THEN PatchEach(heap, heap[m].attrs["estimators_"])
    ELSE IF hasattr(heap[m], "steps")
    THEN PatchEach(heap, StepObjects(heap[m].attrs["steps"]))
    ELSE [heap EXCEPT ![m] = PatchLeaf(@)]

\* joblib.load, then the patch; None when the file is not found.
load_model(file) ==
    IF file.exists
    THEN [root |-> 1, heap |-> patch_model_recursive(file.heap, 1)]
    ELSE None

-----------------------------------------------------------------------------
(* The runs of the script                                                  *)

Pages == {"Dashboard", "Real-Time Prediction"}

Init ==
    /\ csv \in DatasetFiles
    /\ pkl \in {Missing, PlainClassifier}
    /\ started = FALSE
    /\ df = None
    /\ model = None
    /\ selected = "Real-Time Prediction"
    /\ form = None
    /\ predict_btn = FALSE
    /\ analysis = None
    /\ notices = {}

\* The first run: load_data and load_model execute (lines 93-94), the menu
\* is at its default_index 1 and the form shows its defaults.
FirstRun ==
    /\ ~started
    /\ started' = TRUE
    /\ df' = load_data(csv)
    /\ model' = load_model(pkl)
    /\ selected' = "Real-Time Prediction"
    /\ form' = FormDefault(df')
    /\ predict_btn' = FALSE
    /\ analysis' = None
    /\ notices' = (IF csv.exists THEN {} ELSE {"Dataset file not found"})
                  \cup (IF pkl.exists THEN {} ELSE {"Model file not found"})
    /\ UNCHANGED <<csv, pkl>>

\* A run with the Dashboard selected (lines 125-155): no form, no scoring.
\* What the page draws from the numeric columns is not part of the state.
Dashboard ==
    /\ started
    /\ selected' = "Dashboard"
    /\ form' = None
    /\ predict_btn' = FALSE
    /\ analysis' = None
    /\ notices' = {}
    /\ UNCHANGED <<csv, pkl, started, df, model>>

\* A run with Real-Time Prediction selected (lines 160-308): the widgets
\* hold f, the button was or was not pressed, and the model call, if it
\* is made, ends in outcome.
Prediction(f, pressed, outcome) ==
    /\ selected' = "Real-Time Prediction"
    /\ form' = f
    /\ predict_btn' = pressed
    /\ IF ShouldPredict(pressed, model)
       THEN /\ analysis' = Analyze(df, f, outcome)
            /\ notices' = IF outcome.raises THEN {"Prediction Error"} ELSE {}
       ELSE /\ analysis' = None
            /\ notices' = {}
    /\ UNCHANGED <<csv, pkl, started, df, model>>

\* The runs of the prediction page explored, <<form, button, outcome of
\* the model call>>: the first and the last form shown without a press (no
\* call is made, the outcome is not used), every form submitted with the
\* call returning 1, and the default form submitted with every outcome.
Submissions(frame) ==
    ({FormDefault(frame), FormLast(frame)} \X {FALSE} \X {[raises |-> TRUE]})
    \cup (Forms(frame) \X {TRUE} \X {[raises |-> FALSE, p |-> ProbScale]})
    \cup ({FormDefault(frame)} \X {TRUE} \X PredictOutcomes)

PredictionRun ==
    /\ started
    /\ \E s \in Submissions(df) : Prediction(s[1], s[2], s[3])

Next ==
    \/ FirstRun
    \/ Dashboard
    \/ PredictionRun

Spec == Init /\ [][Next]_vars

\* The loader alone: the model file is missing or holds any graph of
\* 1..MaxNodes objects.
InitPatch ==
    /\ csv = Missing
    /\ \/ pkl = Missing
       \/ \E n \in 1..MaxNodes : pkl \in ModelFilesOfSize(n)
    /\ started = FALSE
    /\ df = None
    /\ model = None
    /\ selected = "Real-Time Prediction"
    /\ form = None
    /\ predict_btn = FALSE
    /\ analysis = None
    /\ notices = {}

NextPatch ==
    \/ FirstRun
    \/ Dashboard

SpecPatch == InitPatch /\ [][NextPatch]_vars

-----------------------------------------------------------------------------
(* Properties                                                              *)

\* The current run scored a transaction.
Scored == started /\ analysis # None

\* The value the feature row holds under a column name.
ValueUnder(name) ==
    LET row == analysis.input_df
    IN  row[CHOOSE i \in 1..Len(row) : row[i].column = name].value

\* The distinct values of a dataset column.
Vocabulary(frame, c) == {frame.rows[i][c] : i \in 1..Len(frame.rows)}

\* The number of values of S that sort before v.
Rank(S, v) == Cardinality({w \in S : StrLess(w, v)})

\* C1: the tier is a function of the probability p alone: CRITICAL at
\* intensity 100% exactly when p > 0.5, WARNING at 60% exactly when
\* 0.3 < p <= 0.5, SAFE at 5% exactly when p <= 0.3; so p = 0.5 is WARNING
\* and p = 0.3 is SAFE.
C1_TierPartition ==
    Scored =>
        LET n == analysis.probability
            t == analysis.tier
        IN  /\ t.risk_level \in {"CRITICAL RISK", "WARNING", "SAFE"}
            /\ (t.risk_level = "CRITICAL RISK") <=> (2 * n > ProbScale)
            /\ (t.risk_level = "WARNING")
                   <=> (10 * n > 3 * ProbScale /\ 2 * n <= ProbScale)
            /\ (t.risk_level = "SAFE") <=> (10 * n <= 3 * ProbScale)
            /\ (t.bar_width = "100%") <=> (t.risk_level = "CRITICAL RISK")
            /\ (t.bar_width = "60%") <=> (t.risk_level = "WARNING")
            /\ (t.bar_width = "5%") <=> (t.risk_level = "SAFE")

\* A model call that returned exactly 0.5 was classified WARNING.
C1_Witness ==
    /\ Scored
    /\ ~analysis.raised
    /\ 2 * analysis.probability = ProbScale
    /\ analysis.tier.risk_level = "WARNING"

\* C2: a run whose model call raised ends unscored: it shows no probability
\* and no risk tier.
C2_RaiseLeavesUnscored ==
    (started /\ "Prediction Error" \in notices) => analysis = None

\* C3: no feature row is built from a categorical value that is not in the
\* vocabulary of its column (or whose column has no vocabulary): encoding
\* such a value fails instead of returning a code.
C3_UnknownCategoryFails ==
    Scored =>
        \A c \in CatColSet :
            /\ c \in df.columns
            /\ form[StrField[c]] \in Vocabulary(df, c)

\* C4: while load_model returned None, no run scores anything: no model
\* call, no probability, no tier, whatever page or button was used.
C4_NoModelNoScoring ==
    (started /\ model = None) => analysis = None

\* The Analyze button was pressed with no model loaded.
C4_Witness ==
    /\ started
    /\ model = None
    /\ selected = "Real-Time Prediction"
    /\ predict_btn
    /\ analysis = None

\* C5: the row handed to the model has 18 entries in the training order;
\* each categorical entry is the code of that field's selection and each
\* numeric entry is the value entered for that field.
C5_FeatureOrder ==
    Scored =>
        LET row == analysis.input_df
        IN  /\ Len(analysis.input_features) = 18
            /\ [i \in 1..Len(row) |-> row[i].column] =
                 <<"transaction_amount", "transaction_type", "account_balance",
                   "device_type", "location", "merchant_category",
                   "daily_transaction_count", "avg_transaction_amount_7d",
                   "failed_transaction_count_7d", "card_type", "card_age",
                   "transaction_distance", "authentication_method",
                   "is_weekend", "hour", "day", "month", "day_of_week">>
            /\ \A i \in 1..Len(row) : row[i].value = analysis.input_features[i]
            /\ \A c \in CatColSet :
                   ValueUnder(c) = encode_input(df, c, form[StrField[c]])
            /\ \A name \in {"transaction_amount", "account_balance",
                            "daily_transaction_count",
                            "avg_transaction_amount_7d",
                            "failed_transaction_count_7d", "card_age",
                            "transaction_distance", "hour", "day", "month"} :
                   ValueUnder(name) = form[name]
            /\ ValueUnder("is_weekend") = 1 <=> form.is_weekend_val = "Yes"
            /\ ValueUnder("is_weekend") = 0 <=> form.is_weekend_val = "No"
            /\ days_map[ValueUnder("day_of_week") + 1] = form.day_of_week_str

\* A row built from a form with every widget moved, over a dataset with
\* three transaction types.
C5_Witness ==
    /\ Scored
    /\ form.account_balance = 4000
    /\ form.day_of_week_str = "Sunday"
    /\ analysis.input_features[2] = 2
    /\ analysis.input_features[3] = 4000

\* C6: the code in the feature row determines the selected label: no other
\* label the form offers for that field encodes to the same code.
C6_RoundTrip ==
    Scored =>
        \A c \in CatColSet :
            \A k \in 1..Len(Options(df, c)) :
                encode_input(df, c, Options(df, c)[k]) = ValueUnder(c)
                    => Options(df, c)[k] = form[StrField[c]]

\* C7: for a column present in the dataset with k distinct values, the
\* code of a value is its rank among the distinct values, the codes are
\* exactly 0..k-1, and a scored row carries that rank for its selection.
C7_SortedRankCodes ==
    started =>
        \A c \in df.columns :
            LET vals == Vocabulary(df, c)
            IN  /\ \A v \in vals : encode_input(df, c, v) = Rank(vals, v)
                /\ {encode_input(df, c, v) : v \in vals}
                       = 0..(Cardinality(vals) - 1)
                /\ (Scored /\ form[StrField[c]] \in vals)
                       => ValueUnder(c) = Rank(vals, form[StrField[c]])

\* A scored row whose transaction type, first in the dataset's rows, got
\* code 2 of 3.
C7_Witness ==
    /\ Scored
    /\ "transaction_type" \in df.columns
    /\ Cardinality(Vocabulary(df, "transaction_type")) = 3
    /\ df.rows[1].transaction_type = form.transaction_type_str
    /\ ValueUnder("transaction_type") = 2

-----------------------------------------------------------------------------
(* Properties of the loader (SpecPatch)                                    *)

Leaf(obj) == ~hasattr(obj, "estimators_") /\ ~hasattr(obj, "steps")

\* The objects listed in an object's estimators_ or steps.
SubEstimators(obj) ==
    (IF hasattr(obj, "estimators_")
       THEN {obj.attrs["estimators_"][k] : k \in 1..Len(obj.attrs["estimators_"])}
       ELSE {})
    \cup (IF hasattr(obj, "steps")
            THEN {obj.attrs["steps"][k][2] : k \in 1..Len(obj.attrs["steps"])}
            ELSE {})

\* The objects reachable from m through any nesting of the two lists.
RECURSIVE ReachableFrom(_, _)
ReachableFrom(heap, m) ==
    {m} \cup UNION {ReachableFrom(heap, j) : j \in SubEstimators(heap[m])}

\* C8: the pass is additive: every attribute an object had in the artifact
\* has the same value afterwards, and an attribute it gained is
\* monotonic_cst = None.
C8_PatchAdditive ==
    (started /\ model # None) =>
        /\ DOMAIN model.heap = DOMAIN pkl.heap
        /\ \A i \in DOMAIN pkl.heap :
              LET before == pkl.heap[i].attrs
                  after  == model.heap[i].attrs
              IN  /\ \A a \in DOMAIN before :
                         a \in DOMAIN after /\ after[a] = before[a]
                  /\ \A a \in DOMAIN after \ DOMAIN before :
                         a = "monotonic_cst" /\ after[a] = None

\* A loaded model in which one leaf kept its own monotonic_cst and another
\* gained the attribute.
C8_Witness ==
    /\ started
    /\ model # None
    /\ \E i, j \in DOMAIN pkl.heap :
          /\ Leaf(pkl.heap[i])
          /\ hasattr(pkl.heap[i], "monotonic_cst")
          /\ pkl.heap[i].attrs["monotonic_cst"] = Cst
          /\ ~hasattr(pkl.heap[j], "monotonic_cst")
          /\ hasattr(model.heap[j], "monotonic_cst")

\* C9: after load_model every leaf estimator reachable from the loaded
\* model through estimators_ and steps carries monotonic_cst, whatever the
\* shape of the graph (a leaf that rejects the attribute cannot carry it
\* and is not counted).
C9_EveryLeafPatched ==
    (started /\ model # None) =>
        \A i \in ReachableFrom(model.heap, model.root) :
            (Leaf(model.heap[i]) /\ model.heap[i].settable)
                => hasattr(model.heap[i], "monotonic_cst")

====
